---- MODULE Spec2Model ----
(***************************************************************************)
(* A model of boost_colab: the project initializer (initialize), the       *)
(* background mirror loop (_sync_mount_google_drive and its thread body f) *)
(* and the sub-job sequencer (run_sub_jobs).                                *)
(*                                                                         *)
(* Spec      the notebook's main thread calling initialize repeatedly,      *)
(*           interleaved with the mirror-loop threads it launches and with  *)
(*           the drive being unmounted by the environment.                  *)
(* SpecApi   the same, with the notebook also calling wait_for_sync and      *)
(*           copy_to_persistent_project_storage between initialize calls,   *)
(*           in a process that may find the project directory in place.     *)
(* SpecJobs  one call of run_sub_jobs, for every input drawn in InitJobs,   *)
(*           interleaved with the child processes it starts.                *)
(* SpecCli   identify_session, the two project-name derivations, the        *)
(*           uploader's job-name rewrite and its data pull/push actions,    *)
(*           each applied to every input drawn in InitCli.                  *)
(* SpecData  a Colab process, the notebook's or a sub-job child's, calling  *)
(*           initialize with and without rsync_flags while the notebook's   *)
(*           code writes a file into data_job and the loops mirror it.      *)
(***************************************************************************)
EXTENDS Integers, Sequences, FiniteSets, TLC

\* ------------------------------------------------------------------ bounds
\* initialize calls made by the notebook in one process (one thread per call)
MaxCalls == 2
\* largest n_sub_jobs / first_job_to_run drawn for run_sub_jobs
MaxJobs == 3

\* ---------------------------------------------------------------- constants
\* Python's None for a name or a label
None == "None"
\* an optional value: Nothing (Python's None, or an unbound local) or Some(v)
Nothing == << >>
Some(v) == <<v>>
Threads == 1..MaxCalls
Projects == {"p1"}
\* rsync exit codes drawn: success, 24 "file vanished", and 23 for every other code
RsyncCodes == {0, 24, 23}
\* exit codes of git, pip and the data_project rsync run through _run_check_ok
ToolCodes == {0, 1}
HostedSessions == {"colab", "remote-colab"}
Sessions == HostedSessions \cup {"ipython"}

VARIABLES
    \* ---- environment
    runtime,          \* what identify_session() answers in this process
    projDirs,         \* projects p for which /content/p exists
    mounted,          \* /content/drive/MyDrive is a directory
    \* ---- module globals
    SYNC_THREAD,      \* Nothing (None) or Some(id of the thread object)
    SYNC_STOP,
    sync_loop_event,
    \* ---- the threads running f, by id
    tpc,              \* position of each thread in f
    tinit,            \* f's local `initialize`
    trc,              \* p.returncode of the rsync run of this iteration
    tdir,             \* direction of the thread's last rsync (None before its first)
    reported,         \* this iteration's run was reported by _print_subprocess_error
    lockHeld,         \* the startup lock made by the newest launch is locked
    \* ---- the main thread
    mpc,              \* position in initialize / _sync_mount_google_drive
    call,             \* arguments of the running initialize call
    ncalls,           \* initialize calls started
    nthreads,         \* threads created
    joinTarget,       \* the object SYNC_THREAD.join() was called on
    result,           \* outcome of the last finished call of the main thread
    did,              \* steps the running/last call has executed
    failedStep,       \* the step whose failure aborted the last call
    prevPair,         \* per project: pair returned by an earlier force=False hosted call
    pullRc,           \* exit code of the first rsync run of the thread being launched
    again,            \* the running/last call repeats such a call (force=False, same project)
    \* ---- run_sub_jobs
    jin,              \* arguments and environment of the run_sub_jobs call
    markers,          \* indices whose sub-job folder holds the completion file
    jpc,
    it,               \* next value of range(n_sub_jobs)
    i_sub_job,
    running,          \* indices of child processes alive
    invoked,          \* <<index, SUB_JOB_ID value>> of every child started, in order
    curFile,          \* first line of current_sub_job_is.txt
    folders,          \* sub-job folders created by this call
    jresult,
    failedAt,         \* index of the child that exited non-zero
    reach,            \* per index: was the completion file there when the loop reached it
    \* ---- more module globals, and what the calls made after initialize saw
    CURRENT_SESSION,  \* None or the session label
    CURRENT_MOUNTED_DATA_PROJECT_PATH,  \* Nothing (None) or Some(project)
    everReturned,     \* an initialize call of this process has returned a pair
    noneAlive,        \* no loop thread was alive when the last wait_for_sync call began
    freshRun,         \* threads in a local-to-remote run started during the wait_for_sync call
    freshOk,          \* such a run has ended with exit code 0 during the call
    \* ---- the command line program and the pure functions
    fn,               \* the function under way ("off": none)
    arg,              \* its inputs
    out,              \* what it has produced so far
    \* ---- the process, the mirror flags and one file of the job data
    SYNC_RSYNC_FLAGS, \* the module global read by every rsync run of the loop
    subJobEnv,        \* SUB_JOB_ID is in os.environ: the process is a sub-job child
    setupDone,        \* projects for which an initialize call ran through to its last line
    tdel,             \* per thread: the rsync run under way was given --delete
    fileLocal,        \* a file of /content/<project>/data_job: "absent" or "present"
    fileRemote        \* the same file in the data_job folder on the drive

envVars == <<runtime, projDirs, mounted>>
globalVars == <<SYNC_THREAD, SYNC_STOP, sync_loop_event>>
threadVars == <<tpc, tinit, trc, tdir, reported, lockHeld, pullRc>>
mainVars == <<mpc, call, ncalls, nthreads, joinTarget, result, did, failedStep, prevPair,
             again>>
jobVars == <<jin, markers, jpc, it, i_sub_job, running, invoked, curFile, folders,
             jresult, failedAt, reach>>
apiVars == <<CURRENT_SESSION, CURRENT_MOUNTED_DATA_PROJECT_PATH, everReturned, noneAlive,
            freshRun, freshOk>>
cliVars == <<fn, arg, out>>
procVars == <<SYNC_RSYNC_FLAGS, subJobEnv, setupDone, tdel, fileLocal, fileRemote>>
vars == <<envVars, globalVars, threadVars, mainVars, jobVars, apiVars, cliVars, procVars>>

\* ------------------------------------------------------------ pure helpers
\* the (data_project, data_job) pair initialize returns on Colab (lines 314-318)
HostedPair(p) == << <<"/content", p, "data_project">>, <<"/content", p, "data_job">> >>
LocalPairAlwaysParent(nb) ==
    << <<"cwd", "..", "data_project">>, <<"cwd", "..", "data_job">> >>
\* the pair it returns elsewhere (lines 354-361): wd_project is "." when
\* notebooks_folder is None and ".." otherwise, made absolute from the working
\* directory
LocalPair(nb) ==
    IF nb = None
    THEN << <<"cwd", "data_project">>, <<"cwd", "data_job">> >>
    ELSE << <<"cwd", "..", "data_project">>, <<"cwd", "..", "data_job">> >>

RunCheckOkNoThrow(rc, throw) == IF rc # 0 THEN "false" ELSE "true"
\* _run_check_ok: "raise", or the boolean it returns
RunCheckOk(rc, throw) ==
    IF rc # 0 THEN (IF throw THEN "raise" ELSE "false") ELSE "true"

AlreadyInitializedNever(p, force) == FALSE
\* the guard of the "already initialized" return of initialize
AlreadyInitialized(p, force) == p \in projDirs /\ force = FALSE

DirectionAlwaysPull(init) == "remote_to_local"
\* fs_from / fs_to chosen by f from its local `initialize`
Direction(init) == IF init THEN "remote_to_local" ELSE "local_to_remote"

\* the exit codes f reports as an error
IsSyncError(rc) == rc \notin {0, 24}

AfterMirrorRaises(rc) == IF rc \notin {0, 24} THEN "dead" ELSE "event"
\* where f goes after handling p.returncode: on to the event/sleep part of the loop
AfterMirror(rc) == "event"

\* Thread.is_alive(): started and not yet ended (by return or by exception)
Alive(t) == tpc[t] \notin {"unborn", "new", "dead", "exited"}

JoinReturnsAtOnce(t) == TRUE
\* Thread.join() returns when the thread is no longer alive
JoinReturns(t) == ~Alive(t)

\* ------------------------------------------------------ strings and numbers
\* a string is a sequence of one-character strings
DigitChars == <<"0", "1", "2", "3", "4", "5", "6", "7", "8", "9">>
IsDigit(c) == \E d \in 1..10 : DigitChars[d] = c
DigitValue(c) == (CHOOSE d \in 1..10 : DigitChars[d] = c) - 1

RECURSIVE StrNat(_)
StrNat(i) == IF i < 10 THEN <<DigitChars[i + 1]>>
             ELSE StrNat(i \div 10) \o <<DigitChars[(i % 10) + 1]>>
\* Python's str(i) of an int
Str(i) == IF i < 0 THEN <<"-">> \o StrNat(0 - i) ELSE StrNat(i)

RECURSIVE Strip(_)
\* str.strip(): white space off both ends (int() does the same to its argument)
Strip(s) == IF s # << >> /\ Head(s) \in {" ", "\n", "\t"} THEN Strip(Tail(s))
            ELSE IF s # << >> /\ s[Len(s)] \in {" ", "\n", "\t"}
                 THEN Strip(SubSeq(s, 1, Len(s) - 1))
            ELSE s

Unsigned(s) == IF s # << >> /\ Head(s) \in {"-", "+"} THEN Tail(s) ELSE s
\* int(s) succeeds: blanks, an optional sign, then one or more digits
IsIntLiteral(s) ==
    LET u == Unsigned(Strip(s)) IN u # << >> /\ \A k \in 1..Len(u) : IsDigit(u[k])

RECURSIVE NatValue(_)
NatValue(u) == IF u = << >> THEN 0
               ELSE 10 * NatValue(SubSeq(u, 1, Len(u) - 1)) + DigitValue(u[Len(u)])
\* int(s) where it succeeds
ParseInt(s) ==
    LET t == Strip(s) IN
    IF Head(t) = "-" THEN 0 - NatValue(Unsigned(t)) ELSE NatValue(Unsigned(t))

RECURSIVE ZeroPad(_, _)
ZeroPad(u, width) == IF Len(u) >= width THEN u ELSE ZeroPad(<<"0">> \o u, width)
Fmt03NoPad(i) == Str(i)
\* "{:03d}".format(i): the sign counts in the width
Fmt03(i) == IF i < 0 THEN <<"-">> \o ZeroPad(StrNat(0 - i), 2) ELSE ZeroPad(StrNat(i), 3)

\* get_sub_job_folder: os.path.join(data_job, SUB_JOB_FOLDER_FMT.format(i))
SubJobFolder(i) == <<"data_job", "/", "sub_job", "_">> \o Fmt03(i)

\* ------------------------------------------------------------------- Init
\* the indices of sub-jobs
Indices == 0..(MaxJobs - 1)
\* the values SUB_JOB_ID is drawn from when it is set
EnvValues == {<<"0">>, <<"2">>, <<"1", "0">>, <<"0", "1">>, <<"-", "1">>, <<" ", "1">>,
              <<"a">>, << >>}
\* SYNC_RSYNC_FLAGS as the module defines it (lines 43-48)
DefaultFlags == <<"-av", "--delete">>
\* a value of the rsync_flags argument that leaves the extra files alone
KeepFlags == <<"-av">>
\* "--delete" is among the flags of the rsync command
Deletes(flags) == \E k \in 1..Len(flags) : flags[k] = "--delete"
\* what one rsync run makes of the file at its destination: with exit code 0
\* the destination mirrors the source; a run that ended with another code may
\* or may not have got as far as this file (moved)
Mirrored(src, dst, del, moved) ==
    IF ~moved THEN dst
    ELSE IF src = "present" THEN "present"
    ELSE IF del THEN "absent"
    ELSE dst

\* the value of `call` before any call
NoCall == [target |-> [url |-> FALSE, name |-> None], force |-> FALSE, nb |-> None]
\* the value of jresult before run_sub_jobs ends
NoResult == [kind |-> "none", index |-> 0, folder |-> << >>]

InitJobsIdle ==
    /\ jin = [n |-> 0, first |-> 0, completion |-> None, env |-> Nothing, markers |-> {}]
    /\ markers = {}
    /\ jpc = "off"
    /\ it = 0
    /\ i_sub_job = Nothing
    /\ running = {}
    /\ invoked = << >>
    /\ curFile = Nothing
    /\ folders = {}
    /\ jresult = NoResult
    /\ failedAt = Nothing
    /\ reach = [i \in Indices |-> "unreached"]

\* the state of a process that has imported the module: sessions are the labels
\* identify_session may give it, dirs the sets of project directories that may
\* exist already (a sub-job child starts in the runtime its parent set up),
\* envs whether SUB_JOB_ID may be set
InitSync(sessions, dirs, envs) ==
    /\ runtime \in sessions
    /\ projDirs \in dirs
    /\ subJobEnv \in envs
    /\ SYNC_RSYNC_FLAGS = DefaultFlags
    /\ setupDone = {}
    /\ tdel = [t \in Threads |-> FALSE]
    /\ fileLocal = "absent"
    /\ fileRemote = "absent"
    /\ mounted = FALSE
    /\ SYNC_THREAD = Nothing
    /\ SYNC_STOP = FALSE
    /\ sync_loop_event = FALSE
    /\ tpc = [t \in Threads |-> "unborn"]
    /\ tinit = [t \in Threads |-> TRUE]
    /\ trc = [t \in Threads |-> Nothing]
    /\ tdir = [t \in Threads |-> None]
    /\ reported = [t \in Threads |-> FALSE]
    /\ lockHeld = FALSE
    /\ mpc = "idle"
    /\ call = NoCall
    /\ ncalls = 0
    /\ nthreads = 0
    /\ joinTarget = Nothing
    /\ result = Nothing
    /\ did = {}
    /\ failedStep = None
    /\ prevPair = [p \in Projects |-> Nothing]
    /\ pullRc = Nothing
    /\ again = FALSE
    /\ CURRENT_SESSION = None
    /\ CURRENT_MOUNTED_DATA_PROJECT_PATH = Nothing
    /\ everReturned = FALSE
    /\ noneAlive = FALSE
    /\ freshRun = {}
    /\ freshOk = FALSE

\* no command and no function under way
InitCliIdle ==
    /\ fn = "off"
    /\ arg = << >>
    /\ out = << >>

Init == InitSync(Sessions, {{}}, {FALSE}) /\ InitJobsIdle /\ InitCliIdle

\* --------------------------------------------------------- the thread body f
\* the main thread is inside wait_for_sync, after the event was cleared
Waiting == mpc \in {"wfs1", "wfs2"}

\* line 209: is the drive mounted
ThreadTop(t) ==
    /\ tpc[t] = "top"
    /\ tpc' = [tpc EXCEPT ![t] = IF mounted THEN "sync" ELSE "mount"]
    /\ UNCHANGED <<envVars, globalVars, tinit, trc, tdir, reported, lockHeld, pullRc,
                   mainVars, jobVars, apiVars, cliVars, procVars>>

\* the thread ends, by return or by an exception: its locals are gone
ThreadEnds(t, how) ==
    /\ tpc' = [tpc EXCEPT ![t] = how]
    /\ tinit' = [tinit EXCEPT ![t] = TRUE]
    /\ trc' = [trc EXCEPT ![t] = Nothing]
    /\ tdir' = [tdir EXCEPT ![t] = None]
    /\ reported' = [reported EXCEPT ![t] = FALSE]

\* lines 210-214: drive.mount mounts the drive
ThreadMount(t) ==
    /\ tpc[t] = "mount"
    /\ mounted' = TRUE
    /\ tpc' = [tpc EXCEPT ![t] = "sync"]
    /\ UNCHANGED <<runtime, projDirs, globalVars, tinit, trc, tdir, reported, lockHeld,
                   pullRc, mainVars, jobVars, apiVars, cliVars, procVars>>

\* line 212: drive.mount raises in the thread
ThreadMountRaises(t) ==
    /\ tpc[t] = "mount"
    /\ ThreadEnds(t, "dead")
    /\ UNCHANGED <<envVars, globalVars, lockHeld, pullRc, mainVars, jobVars, apiVars, cliVars, procVars>>

\* lines 216-225: choose the direction and start rsync with the flags the
\* global holds now
MirrorStart(t) ==
    /\ tpc[t] = "sync"
    /\ tdir' = [tdir EXCEPT ![t] = Direction(tinit[t])]
    /\ tinit' = [tinit EXCEPT ![t] = FALSE]
    /\ reported' = [reported EXCEPT ![t] = FALSE]
    /\ tpc' = [tpc EXCEPT ![t] = "rsync"]
    /\ freshRun' = IF Waiting /\ Direction(tinit[t]) = "local_to_remote"
                  THEN freshRun \cup {t}
                  ELSE freshRun
    /\ tdel' = [tdel EXCEPT ![t] = Deletes(SYNC_RSYNC_FLAGS)]
    /\ UNCHANGED <<envVars, globalVars, trc, lockHeld, pullRc, mainVars, jobVars,
                   CURRENT_SESSION, CURRENT_MOUNTED_DATA_PROJECT_PATH, everReturned,
                   noneAlive, freshOk, cliVars, SYNC_RSYNC_FLAGS, subJobEnv, setupDone,
                   fileLocal, fileRemote>>

\* line 225: rsync cannot be started, subprocess.run raises in the thread
MirrorRaises(t) ==
    /\ tpc[t] = "sync"
    /\ ThreadEnds(t, "dead")
    /\ UNCHANGED <<envVars, globalVars, lockHeld, pullRc, mainVars, jobVars, apiVars, cliVars, procVars>>

\* line 225: rsync ends with some exit code, having mirrored the job data in
\* the direction chosen
MirrorEnd(t, rc) ==
    /\ tpc[t] = "rsync"
    /\ trc' = [trc EXCEPT ![t] = Some(rc)]
    /\ pullRc' = IF t = nthreads /\ mpc = "sm_wait" /\ pullRc = Nothing
               THEN Some(rc)
               ELSE pullRc
    /\ tpc' = [tpc EXCEPT ![t] = "ran"]
    /\ freshRun' = freshRun \ {t}
    /\ freshOk' = (freshOk \/ (Waiting /\ t \in freshRun /\ rc = 0))
    /\ \E moved \in (IF rc = 0 THEN {TRUE} ELSE BOOLEAN) :
          /\ fileLocal' = IF tdir[t] = "remote_to_local"
                          THEN Mirrored(fileRemote, fileLocal, tdel[t], moved)
                          ELSE fileLocal
          /\ fileRemote' = IF tdir[t] = "local_to_remote"
                           THEN Mirrored(fileLocal, fileRemote, tdel[t], moved)
                           ELSE fileRemote
    /\ tdel' = [tdel EXCEPT ![t] = FALSE]
    /\ UNCHANGED <<envVars, globalVars, tinit, tdir, reported, lockHeld, mainVars,
                   jobVars, CURRENT_SESSION, CURRENT_MOUNTED_DATA_PROJECT_PATH,
                   everReturned, noneAlive, cliVars, SYNC_RSYNC_FLAGS, subJobEnv,
                   setupDone>>

\* lines 235-240: report an error code, release the startup lock
ThreadReport(t) ==
    /\ tpc[t] = "ran"
    /\ IF AfterMirror(trc[t][1]) = "dead"
       THEN ThreadEnds(t, "dead") /\ UNCHANGED lockHeld
       ELSE /\ reported' = [reported EXCEPT ![t] = IsSyncError(trc[t][1])]
            /\ lockHeld' = IF t = nthreads THEN FALSE ELSE lockHeld
            /\ tpc' = [tpc EXCEPT ![t] = AfterMirror(trc[t][1])]
            /\ UNCHANGED <<tinit, trc, tdir>>
    /\ UNCHANGED <<envVars, globalVars, pullRc, mainVars, jobVars, apiVars, cliVars, procVars>>

\* lines 241-242
ThreadEvent(t) ==
    /\ tpc[t] = "event"
    /\ sync_loop_event' = IF trc[t][1] = 0 THEN TRUE ELSE sync_loop_event
    /\ tpc' = [tpc EXCEPT ![t] = "sleep"]
    /\ UNCHANGED <<envVars, SYNC_THREAD, SYNC_STOP, tinit, trc, tdir, reported,
                   lockHeld, pullRc, mainVars, jobVars, apiVars, cliVars, procVars>>

\* lines 243-244: sleep, then read SYNC_STOP; p is dead from here on
ThreadSleep(t) ==
    /\ tpc[t] = "sleep"
    /\ tpc' = [tpc EXCEPT ![t] = IF SYNC_STOP THEN "stop1" ELSE "top"]
    /\ trc' = [trc EXCEPT ![t] = Nothing]
    /\ reported' = [reported EXCEPT ![t] = FALSE]
    /\ UNCHANGED <<envVars, globalVars, tinit, tdir, lockHeld, pullRc, mainVars,
                   jobVars, apiVars, cliVars, procVars>>

\* line 245
ThreadStop1(t) ==
    /\ tpc[t] = "stop1"
    /\ SYNC_THREAD' = Nothing
    /\ tpc' = [tpc EXCEPT ![t] = "stop2"]
    /\ UNCHANGED <<envVars, SYNC_STOP, sync_loop_event, tinit, trc, tdir, reported,
                   lockHeld, pullRc, mainVars, jobVars, apiVars, cliVars, procVars>>

\* lines 246-248
ThreadStop2(t) ==
    /\ tpc[t] = "stop2"
    /\ SYNC_STOP' = FALSE
    /\ ThreadEnds(t, "exited")
    /\ UNCHANGED <<envVars, SYNC_THREAD, sync_loop_event, lockHeld, pullRc, mainVars,
                   jobVars, apiVars, cliVars, procVars>>

\* the environment: the drive mount goes away
DriveUnmount ==
    /\ mounted
    /\ mounted' = FALSE
    /\ UNCHANGED <<runtime, projDirs, globalVars, threadVars, mainVars, jobVars, apiVars, cliVars, procVars>>

\* ------------------------------------------------------------- initialize
Targets == [url : {TRUE}, name : Projects] \cup [url : {FALSE}, name : Projects \cup {None}]
HostedAlways == TRUE
\* line 332: session in ["colab", "remote-colab"]
Hosted == runtime \in HostedSessions
\* the values of notebooks_folder drawn: None and the default
NotebookFolders == {None, "notebooks"}
Proj == call.target.name

\* a call of the main thread begins: what the model kept of the call before
\* it is forgotten
NewCall ==
    /\ noneAlive' = FALSE
    /\ freshRun' = {}
    /\ freshOk' = FALSE

\* lines 335-342, inside the branch AlreadyInitialized guards: the return for
\* force == False, and the one for a sub-job child in the elif
SkipReturn(force, env) == force = FALSE \/ env

\* lines 299-363: everything up to the clone. rsync_flags, when given,
\* replaces the module global first. notebooks_folder (nb) is kept
\* for the branch that reads it into the returned paths, the one outside
\* Colab; nbdir says whether the notebooks folder beside the working directory
\* exists, for the os.chdir of line 362.
InitializeCall(target, force, nb, nbdir, rsync_flags) ==
    /\ mpc = "idle"
    /\ ncalls < MaxCalls
    /\ ncalls' = ncalls + 1
    /\ SYNC_RSYNC_FLAGS' = IF rsync_flags # Nothing THEN rsync_flags[1] ELSE SYNC_RSYNC_FLAGS
    /\ call' = [target |-> target, force |-> force,
                nb |-> IF Hosted \/ target.name = None THEN None ELSE nb]
    /\ NewCall
    /\ CURRENT_SESSION' = runtime
    /\ LET p == target.name IN
       /\ again' = (Hosted /\ p # None /\ force = FALSE /\ prevPair[p] # Nothing)
       /\ IF p = None
          THEN \* line 312: git_url and project_name both None
               /\ result' = <<"None">>
               /\ did' = {}
               /\ failedStep' = None
               /\ UNCHANGED <<mpc, prevPair, everReturned>>
          ELSE IF ~Hosted
          THEN \* lines 353-363
               /\ did' = {}
               /\ IF nb # None /\ ~nbdir
                  THEN /\ result' = <<"raised">>
                       /\ failedStep' = "chdir"
                       /\ UNCHANGED everReturned
                  ELSE /\ result' = LocalPair(nb)
                       /\ failedStep' = None
                       /\ everReturned' = TRUE
               /\ UNCHANGED <<mpc, prevPair>>
          ELSE IF AlreadyInitialized(p, force) /\ SkipReturn(force, subJobEnv)
          THEN \* lines 333-342
               /\ result' = HostedPair(p)
               /\ did' = {}
               /\ failedStep' = None
               /\ everReturned' = TRUE
               /\ prevPair' = IF force = FALSE /\ prevPair[p] = Nothing
                              THEN [prevPair EXCEPT ![p] = HostedPair(p)]
                              ELSE prevPair
               /\ UNCHANGED mpc
          ELSE \* lines 343-351: the job name goes to the shell files and os.environ
               /\ result' = Nothing
               /\ did' = {"env"}
               /\ failedStep' = None
               /\ mpc' = "clone"
               /\ UNCHANGED <<prevPair, everReturned>>
    /\ UNCHANGED <<envVars, globalVars, threadVars, nthreads, joinTarget, jobVars,
                   CURRENT_MOUNTED_DATA_PROJECT_PATH, cliVars, subJobEnv, setupDone, tdel,
                   fileLocal, fileRemote>>

\* an exception leaves initialize: the cell fails, the notebook may run another
Raises ==
    /\ mpc' = "idle"
    /\ result' = <<"raised">>

\* lines 366-374: git clone through _run_check_ok(throw=True), then chdir
Clone(rc) ==
    /\ mpc = "clone"
    /\ call.target.url
    /\ did' = did \cup {"clone"}
    /\ failedStep' = IF rc # 0 THEN "clone" ELSE failedStep
    /\ IF RunCheckOk(rc, TRUE) = "raise"
       THEN Raises /\ UNCHANGED projDirs
       ELSE /\ projDirs' = IF rc = 0 THEN projDirs \cup {Proj} ELSE projDirs
            /\ mpc' = "gitlog"
            /\ UNCHANGED result
    /\ UNCHANGED <<runtime, mounted, globalVars, threadVars, call, ncalls, nthreads,
                   joinTarget, prevPair, again, jobVars, apiVars, cliVars, procVars>>

\* lines 386-388: no git_url; chdir needs /content/<project> to exist
SkipClone ==
    /\ mpc = "clone"
    /\ ~call.target.url
    /\ IF Proj \in projDirs
       THEN mpc' = "sm_check" /\ UNCHANGED <<result, failedStep>>
       ELSE Raises /\ failedStep' = "chdir"
    /\ UNCHANGED <<envVars, globalVars, threadVars, call, ncalls, nthreads, joinTarget,
                   did, prevPair, again, jobVars, apiVars, cliVars, procVars>>

\* lines 375-385: git log through _run_check_ok(throw=True)
GitLog(rc) ==
    /\ mpc = "gitlog"
    /\ did' = did \cup {"gitlog"}
    /\ failedStep' = IF rc # 0 /\ failedStep = None THEN "gitlog" ELSE failedStep
    /\ IF RunCheckOk(rc, TRUE) = "raise"
       THEN Raises
       ELSE mpc' = "sm_check" /\ UNCHANGED result
    /\ UNCHANGED <<envVars, globalVars, threadVars, call, ncalls, nthreads, joinTarget,
                   prevPair, again, jobVars, apiVars, cliVars, procVars>>

\* ----------------------------------------------- _sync_mount_google_drive
\* line 187
SmCheck ==
    /\ mpc = "sm_check"
    /\ mpc' = IF SYNC_THREAD # Nothing THEN "sm_stop" ELSE "sm_create"
    /\ UNCHANGED <<envVars, globalVars, threadVars, call, ncalls, nthreads, joinTarget,
                   result, did, failedStep, prevPair, again, jobVars, apiVars, cliVars, procVars>>

\* line 188
SmStop ==
    /\ mpc = "sm_stop"
    /\ SYNC_STOP' = TRUE
    /\ mpc' = "sm_join"
    /\ UNCHANGED <<envVars, SYNC_THREAD, sync_loop_event, threadVars, call, ncalls,
                   nthreads, joinTarget, result, did, failedStep, prevPair, again,
                   jobVars, apiVars, cliVars, procVars>>

\* line 189: SYNC_THREAD is read again; on None the AttributeError is swallowed
\* by the bare except of lines 190-191
SmJoinCall ==
    /\ mpc = "sm_join"
    /\ joinTarget' = SYNC_THREAD
    /\ mpc' = IF SYNC_THREAD = Nothing THEN "sm_create" ELSE "sm_joining"
    /\ UNCHANGED <<envVars, globalVars, threadVars, call, ncalls, nthreads, result, did,
                   failedStep, prevPair, again, jobVars, apiVars, cliVars, procVars>>

\* line 189: join returns
SmJoined ==
    /\ mpc = "sm_joining"
    /\ JoinReturns(joinTarget[1])
    /\ mpc' = "sm_create"
    /\ joinTarget' = Nothing
    /\ UNCHANGED <<envVars, globalVars, threadVars, call, ncalls, nthreads, result, did,
                   failedStep, prevPair, again, jobVars, apiVars, cliVars, procVars>>

\* lines 192-250: the lock is made and taken, the local directory made, the
\* thread object made and stored
SmCreate ==
    /\ mpc = "sm_create"
    /\ nthreads' = nthreads + 1
    /\ lockHeld' = TRUE
    /\ projDirs' = projDirs \cup {Proj}
    /\ SYNC_THREAD' = Some(nthreads + 1)
    /\ tpc' = [tpc EXCEPT ![nthreads + 1] = "new"]
    /\ pullRc' = Nothing
    /\ mpc' = "sm_start"
    /\ UNCHANGED <<runtime, mounted, SYNC_STOP, sync_loop_event, tinit, trc, tdir,
                   reported, call, ncalls, joinTarget, result, did, failedStep, prevPair,
                   again, jobVars, apiVars, cliVars, procVars>>

\* line 251: SYNC_THREAD.start() starts whatever the global names now
SmStart ==
    /\ mpc = "sm_start"
    /\ did' = did \cup {"launch"}
    /\ IF SYNC_THREAD = Nothing
       THEN Raises /\ UNCHANGED tpc
       ELSE /\ tpc' = [tpc EXCEPT ![SYNC_THREAD[1]] = "top"]
            /\ mpc' = "sm_wait"
            /\ UNCHANGED result
    /\ UNCHANGED <<envVars, globalVars, tinit, trc, tdir, reported, lockHeld, pullRc,
                   call, ncalls, nthreads, joinTarget, failedStep, prevPair, again,
                   jobVars, apiVars, cliVars, procVars>>

\* line 252: the second acquire of the startup lock; then lines 406-419
SmWait ==
    /\ mpc = "sm_wait"
    /\ ~lockHeld
    /\ lockHeld' = TRUE
    /\ mpc' = "seed"
    /\ CURRENT_MOUNTED_DATA_PROJECT_PATH' = Some(Proj)
    /\ UNCHANGED <<envVars, globalVars, tpc, tinit, trc, tdir, reported, pullRc, call,
                   ncalls, nthreads, joinTarget, result, did, failedStep, prevPair, again,
                   jobVars, CURRENT_SESSION, everReturned, noneAlive, freshRun, freshOk,
                   cliVars, procVars>>

\* ------------------------------------------------- initialize, continued
\* sync_data_project and requirements_file are read once each, at lines 420-435
\* and 450: the value of each argument is drawn where it is read.
\* lines 420-432, sync_data_project == "full": data_project is mirrored through _run_check_ok(throw=True)
SeedFull(rc) ==
    /\ mpc = "seed"
    /\ pullRc' = Nothing
    /\ did' = did \cup {"seed"}
    /\ failedStep' = IF rc # 0 THEN "seed" ELSE failedStep
    /\ IF RunCheckOk(rc, TRUE) = "raise"
       THEN Raises
       ELSE mpc' = "pip" /\ UNCHANGED result
    /\ UNCHANGED <<envVars, globalVars, tpc, tinit, trc, tdir, reported, lockHeld,
                   call, ncalls, nthreads, joinTarget, prevPair, again, jobVars, apiVars, cliVars, procVars>>

\* lines 433-434, sync_data_project == "no"
SeedNo ==
    /\ mpc = "seed"
    /\ pullRc' = Nothing
    /\ mpc' = "pip"
    /\ UNCHANGED <<envVars, globalVars, tpc, tinit, trc, tdir, reported, lockHeld,
                   call, ncalls, nthreads, joinTarget, result, did, failedStep,
                   prevPair, again, jobVars, apiVars, cliVars, procVars>>

\* lines 435-441, sync_data_project a list: the listed files are copied;
\* shutil.copy may raise
SeedList(ok) ==
    /\ mpc = "seed"
    /\ pullRc' = Nothing
    /\ did' = did \cup {"seed"}
    /\ IF ok
       THEN mpc' = "pip" /\ UNCHANGED <<result, failedStep>>
       ELSE Raises /\ failedStep' = "copy"
    /\ UNCHANGED <<envVars, globalVars, tpc, tinit, trc, tdir, reported, lockHeld,
                   call, ncalls, nthreads, joinTarget, prevPair, again, jobVars, apiVars, cliVars, procVars>>

\* the return of lines 461-462
Returns ==
    /\ mpc' = "idle"
    /\ result' = HostedPair(Proj)
    /\ everReturned' = TRUE
    /\ setupDone' = setupDone \cup {Proj}
    /\ prevPair' = IF call.force = FALSE /\ prevPair[Proj] = Nothing
                   THEN [prevPair EXCEPT ![Proj] = HostedPair(Proj)]
                   ELSE prevPair

\* lines 450-462, requirements_file given: pip install through
\* _run_check_ok(throw=True), then return
Pip(rc) ==
    /\ mpc = "pip"
    /\ did' = did \cup {"pip"}
    /\ failedStep' = IF rc # 0 THEN "pip" ELSE failedStep
    /\ IF RunCheckOk(rc, TRUE) = "raise"
       THEN Raises /\ UNCHANGED <<prevPair, everReturned, setupDone>>
       ELSE Returns
    /\ UNCHANGED <<envVars, globalVars, threadVars, call, ncalls, nthreads, joinTarget,
                   again, jobVars, CURRENT_SESSION, CURRENT_MOUNTED_DATA_PROJECT_PATH,
                   noneAlive, freshRun, freshOk, cliVars, SYNC_RSYNC_FLAGS, subJobEnv,
                   tdel, fileLocal, fileRemote>>

\* lines 450, 459-462: requirements_file is None
SkipPip ==
    /\ mpc = "pip"
    /\ Returns
    /\ UNCHANGED <<envVars, globalVars, threadVars, call, ncalls, nthreads, joinTarget,
                   did, failedStep, again, jobVars, CURRENT_SESSION,
                   CURRENT_MOUNTED_DATA_PROJECT_PATH, noneAlive, freshRun, freshOk,
                   cliVars, SYNC_RSYNC_FLAGS, subJobEnv, tdel, fileLocal, fileRemote>>

ThreadStep(t) ==
    \/ ThreadTop(t)
    \/ ThreadMount(t)
    \/ ThreadMountRaises(t)
    \/ MirrorStart(t)
    \/ MirrorRaises(t)
    \/ \E rc \in RsyncCodes : MirrorEnd(t, rc)
    \/ ThreadReport(t)
    \/ ThreadEvent(t)
    \/ ThreadSleep(t)
    \/ ThreadStop1(t)
    \/ ThreadStop2(t)

\* the steps of the main thread, for initialize calls whose rsync_flags
\* argument is drawn from flagArgs
MainStepWith(flagArgs) ==
    \/ \E target \in Targets, force \in BOOLEAN, nb \in NotebookFolders, nbdir \in BOOLEAN,
          rsync_flags \in flagArgs :
          InitializeCall(target, force, nb, nbdir, rsync_flags)
    \/ \E rc \in ToolCodes : Clone(rc)
    \/ SkipClone
    \/ \E rc \in ToolCodes : GitLog(rc)
    \/ SmCheck
    \/ SmStop
    \/ SmJoinCall
    \/ SmJoined
    \/ SmCreate
    \/ SmStart
    \/ SmWait
    \/ \E rc \in ToolCodes : SeedFull(rc)
    \/ SeedNo
    \/ \E ok \in BOOLEAN : SeedList(ok)
    \/ \E rc \in ToolCodes : Pip(rc)
    \/ SkipPip

\* rsync_flags left at its default, None
MainStep == MainStepWith({Nothing})

Next ==
    \/ MainStep
    \/ \E t \in Threads : ThreadStep(t)
    \/ DriveUnmount

Spec == Init /\ [][Next]_vars

\* ------------------------------------- the calls a notebook makes afterwards
\* wait_for_sync, lines 711-714: the test of SYNC_THREAD and the clear
WaitForSyncCall ==
    /\ mpc = "idle"
    /\ noneAlive' = ~(\E t \in Threads : Alive(t))
    /\ freshRun' = {}
    /\ freshOk' = FALSE
    /\ did' = {}
    /\ failedStep' = None
    /\ again' = FALSE
    /\ IF SYNC_THREAD = Nothing
       THEN /\ result' = <<"False">>
            /\ UNCHANGED <<mpc, sync_loop_event>>
       ELSE /\ sync_loop_event' = FALSE
            /\ result' = Nothing
            /\ mpc' = "wfs1"
    /\ UNCHANGED <<envVars, SYNC_THREAD, SYNC_STOP, threadVars, call, ncalls, nthreads,
                   joinTarget, prevPair, jobVars, CURRENT_SESSION,
                   CURRENT_MOUNTED_DATA_PROJECT_PATH, everReturned, cliVars, procVars>>

\* lines 715-717, i = 0: sync_loop_event.wait() returns once the event is set;
\* nothing clears it before the second wait
WaitFirst ==
    /\ mpc = "wfs1"
    /\ sync_loop_event
    /\ mpc' = "wfs2"
    /\ UNCHANGED <<envVars, globalVars, threadVars, call, ncalls, nthreads, joinTarget,
                   result, did, failedStep, prevPair, again, jobVars, apiVars, cliVars, procVars>>

\* lines 715-718, i = 1, and the return
WaitSecond ==
    /\ mpc = "wfs2"
    /\ sync_loop_event
    /\ mpc' = "idle"
    /\ result' = <<"True">>
    /\ UNCHANGED <<envVars, globalVars, threadVars, call, ncalls, nthreads, joinTarget,
                   did, failedStep, prevPair, again, jobVars, apiVars, cliVars, procVars>>

CopyToCloudGdriveAlways == <<"copy", "drive", "copied">>
\* copy_to_cloud_gdrive, lines 663-672: the copy, or the log line alone
CopyToCloudGdrive ==
    IF CURRENT_MOUNTED_DATA_PROJECT_PATH # Nothing
    THEN <<"copy", "drive", "copied">>
    ELSE <<"copy", "drive", "skipped">>

\* copy_to_persistent_project_storage, lines 682-690
CopyToPersistentProjectStorage ==
    /\ mpc = "idle"
    /\ NewCall
    /\ did' = {}
    /\ failedStep' = None
    /\ again' = FALSE
    /\ result' = IF CURRENT_SESSION = None THEN <<"copy", "none", "AssertionError">>
                 ELSE IF CURRENT_SESSION \in HostedSessions THEN CopyToCloudGdrive
                 ELSE <<"copy", "local", "copied">>
    /\ UNCHANGED <<envVars, globalVars, threadVars, mpc, call, ncalls, nthreads,
                   joinTarget, prevPair, jobVars, CURRENT_SESSION,
                   CURRENT_MOUNTED_DATA_PROJECT_PATH, everReturned, cliVars, procVars>>

ApiStep ==
    \/ WaitForSyncCall
    \/ WaitFirst
    \/ WaitSecond
    \/ CopyToPersistentProjectStorage

\* a process in which the project directory may exist before the first call
InitApi == InitSync(Sessions, SUBSET Projects, {FALSE}) /\ InitJobsIdle /\ InitCliIdle

NextApi ==
    \/ Next
    \/ ApiStep

SpecApi == InitApi /\ [][NextApi]_vars

\* ------------------------------------- the job data and the process around it
\* the code of the notebook writes a file into the data_job folder that
\* initialize gave it, once a loop for that folder has been launched
WriteFile ==
    /\ mpc = "idle"
    /\ CURRENT_MOUNTED_DATA_PROJECT_PATH # Nothing
    /\ fileLocal = "absent"
    /\ fileLocal' = "present"
    /\ UNCHANGED <<envVars, globalVars, threadVars, mainVars, jobVars, apiVars, cliVars,
                   SYNC_RSYNC_FLAGS, subJobEnv, setupDone, tdel, fileRemote>>

\* a Colab process, the notebook's or a sub-job child's, in which the project
\* directory may exist already
InitData == InitSync({"colab"}, SUBSET Projects, BOOLEAN) /\ InitJobsIdle /\ InitCliIdle

\* initialize is called with and without rsync_flags
NextData ==
    \/ MainStepWith({Nothing, Some(KeepFlags)})
    \/ \E t \in Threads : ThreadStep(t)
    \/ DriveUnmount
    \/ WriteFile

SpecData == InitData /\ [][NextData]_vars

\* ----------------------------------------------------------- run_sub_jobs
InitJobs ==
    /\ InitSync({"colab"}, {{}}, BOOLEAN)
    /\ InitCliIdle
    /\ jin \in [n : 0..MaxJobs, first : 0..MaxJobs, completion : {None, "done"},
                env : {Nothing} \cup {Some(v) : v \in EnvValues},
                markers : SUBSET Indices]
    /\ subJobEnv = (jin.env # Nothing)
    /\ markers = jin.markers
    /\ jpc = "start"
    /\ it = 0
    /\ i_sub_job = Nothing
    /\ running = {}
    /\ invoked = << >>
    /\ curFile = Nothing
    /\ folders = {}
    /\ jresult = NoResult
    /\ failedAt = Nothing
    /\ reach = [i \in Indices |-> "unreached"]

InChildSessionNever(env) == FALSE
\* os.environ[SUB_JOB_ENV_VAR] does not raise KeyError
InChildSession(env) == env # Nothing

BeforeFirstOffByOne(i, first) == i <= first
\* line 522
BeforeFirst(i, first) == i < first

MarkerSkipNever(completion, present) == FALSE
\* lines 530-532
MarkerSkip(completion, present) == completion # None /\ present

StopsOnFailureNever(rc) == FALSE
\* lines 571-573
StopsOnFailure(rc) == rc # 0

\* lines 503-513: inside a sub-job the call returns at once; int() may raise
\* ValueError, which the except KeyError does not catch
JStart ==
    /\ jpc = "start"
    /\ IF InChildSession(jin.env)
       THEN /\ jpc' = "done"
            /\ jresult' = IF IsIntLiteral(jin.env[1])
                          THEN [kind |-> "child", index |-> ParseInt(jin.env[1]),
                                folder |-> SubJobFolder(ParseInt(jin.env[1]))]
                          ELSE [kind |-> "ValueError", index |-> 0, folder |-> << >>]
       ELSE /\ jpc' = "discover"
            /\ UNCHANGED jresult
    /\ UNCHANGED <<envVars, globalVars, threadVars, mainVars, apiVars, cliVars, procVars, jin, markers, it, i_sub_job,
                   running, invoked, curFile, folders, failedAt, reach>>

\* lines 515-520: the notebook's name is asked of the session endpoint
JDiscover ==
    /\ jpc = "discover"
    /\ jpc' = "loop"
    /\ UNCHANGED <<envVars, globalVars, threadVars, mainVars, apiVars, cliVars, procVars, jin, markers, it, i_sub_job,
                   running, invoked, curFile, folders, jresult, failedAt, reach>>

\* line 516: requests.get raises
JDiscoverRaises ==
    /\ jpc = "discover"
    /\ jpc' = "done"
    /\ jresult' = [kind |-> "RequestError", index |-> 0, folder |-> << >>]
    /\ UNCHANGED <<envVars, globalVars, threadVars, mainVars, apiVars, cliVars, procVars, jin, markers, it, i_sub_job,
                   running, invoked, curFile, folders, failedAt, reach>>

\* line 521: range(n_sub_jobs) is exhausted
JLoopEnd ==
    /\ jpc = "loop"
    /\ it >= jin.n
    /\ jpc' = "final"
    /\ UNCHANGED <<envVars, globalVars, threadVars, mainVars, apiVars, cliVars, procVars, jin, markers, it, i_sub_job,
                   running, invoked, curFile, folders, jresult, failedAt, reach>>

\* lines 521-528: an index before first_job_to_run
JSkipBefore ==
    /\ jpc = "loop"
    /\ it < jin.n
    /\ BeforeFirst(it, jin.first)
    /\ i_sub_job' = Some(it)
    /\ it' = it + 1
    /\ UNCHANGED <<envVars, globalVars, threadVars, mainVars, apiVars, cliVars, procVars, jin, markers, jpc, running,
                   invoked, curFile, folders, jresult, failedAt, reach>>

\* lines 529-538: the completion file is in the index's folder
JSkipMarker ==
    /\ jpc = "loop"
    /\ it < jin.n
    /\ ~BeforeFirst(it, jin.first)
    /\ MarkerSkip(jin.completion, it \in markers)
    /\ i_sub_job' = Some(it)
    /\ it' = it + 1
    /\ reach' = [reach EXCEPT ![it] = IF it \in markers THEN "present" ELSE "absent"]
    /\ UNCHANGED <<envVars, globalVars, threadVars, mainVars, apiVars, cliVars, procVars, jin, markers, jpc, running,
                   invoked, curFile, folders, jresult, failedAt>>

\* lines 539-565: the marker file, the child's environment, its folder, and
\* subprocess.run, which returns only when the child has exited
JRunChild ==
    /\ jpc = "loop"
    /\ it < jin.n
    /\ ~BeforeFirst(it, jin.first)
    /\ ~MarkerSkip(jin.completion, it \in markers)
    /\ i_sub_job' = Some(it)
    /\ it' = it + 1
    /\ reach' = [reach EXCEPT ![it] = IF it \in markers THEN "present" ELSE "absent"]
    /\ curFile' = Some(it)
    /\ folders' = folders \cup {SubJobFolder(it)}
    /\ invoked' = Append(invoked, <<it, Str(it)>>)
    /\ running' = running \cup {it}
    /\ jpc' = "child"
    /\ UNCHANGED <<envVars, globalVars, threadVars, mainVars, apiVars, cliVars, procVars, jin, markers, jresult,
                   failedAt>>

\* the running notebook writes the completion file into a sub-job folder
ChildWritesMarker(j) ==
    /\ running # {}
    /\ j \notin markers
    /\ markers' = markers \cup {j}
    /\ UNCHANGED <<envVars, globalVars, threadVars, mainVars, apiVars, cliVars, procVars, jin, jpc, it, i_sub_job,
                   running, invoked, curFile, folders, jresult, failedAt, reach>>

\* lines 566-578: the child exits; a non-zero code breaks the loop
JChildExit(rc) ==
    /\ jpc = "child"
    /\ running' = running \ {i_sub_job[1]}
    /\ failedAt' = IF rc # 0 THEN i_sub_job ELSE failedAt
    /\ jpc' = IF StopsOnFailure(rc) THEN "final" ELSE "loop"
    /\ UNCHANGED <<envVars, globalVars, threadVars, mainVars, apiVars, cliVars, procVars, jin, markers, it, i_sub_job,
                   invoked, curFile, folders, jresult, reach>>

\* lines 580-583: i_sub_job is unbound when the loop body never ran
JFinal ==
    /\ jpc = "final"
    /\ jpc' = "done"
    /\ IF i_sub_job = Nothing
       THEN /\ jresult' = [kind |-> "UnboundLocalError", index |-> 0, folder |-> << >>]
            /\ UNCHANGED curFile
       ELSE /\ jresult' = [kind |-> "main", index |-> jin.n, folder |-> <<"data_job">>]
            /\ curFile' = i_sub_job
    /\ UNCHANGED <<envVars, globalVars, threadVars, mainVars, apiVars, cliVars, procVars, jin, markers, it, i_sub_job,
                   running, invoked, folders, failedAt, reach>>

NextJobs ==
    \/ JStart
    \/ JDiscover
    \/ JDiscoverRaises
    \/ JLoopEnd
    \/ JSkipBefore
    \/ JSkipMarker
    \/ JRunChild
    \/ \E j \in Indices : ChildWritesMarker(j)
    \/ \E rc \in ToolCodes : JChildExit(rc)
    \/ JFinal

SpecJobs == InitJobs /\ [][NextJobs]_vars

\* ============================================ the command line program and
\* the pure functions: texts are sequences of one-character strings
DQ == "\""
SQ == "'"
\* the sequences over S of length up to n
Seqs(S, n) == UNION {[1..k -> S] : k \in 0..n}
\* s has w at index i
StartsWithAt(s, i, w) == i + Len(w) - 1 <= Len(s) /\ SubSeq(s, i, i + Len(w) - 1) = w
\* str.endswith
EndsWith(s, w) == Len(s) >= Len(w) /\ SubSeq(s, Len(s) - Len(w) + 1, Len(s)) = w
\* Python's `w in s` for strings
Contains(s, w) == \E i \in 1..(Len(s) - Len(w) + 1) : StartsWithAt(s, i, w)

\* ------------------------------------------------------- identify_session
Labels == {"colab", "remote-colab", "notebook-qtconsole", "ipython", "other"}
\* exception classes drawn for a failing import or call; all descend from Exception
Exceptions == {"ModuleNotFoundError", "ImportError", "NameError", "AttributeError"}
\* `except c` handles an exception of class e
Catches(c, e) ==
    \/ c = "Exception"
    \/ c = e
    \/ (c = "ImportError" /\ e = "ModuleNotFoundError")
\* what eval_js("window.location.href") may give: None or an address
Google == <<"g", "o", "o", "g", "l", "e">>
Addresses == {<<"c", ".">> \o Google \o <<".", "c">>,
              <<"c", ".", "g", "o", "o", "g", "l", ".", "c">>,
              << >>}
Probes == [kind : {"raise"}, exc : Exceptions, w : {Nothing}]
          \cup [kind : {"value"}, exc : {None}, w : {Nothing} \cup {Some(a) : a \in Addresses}]
\* what get_ipython().__class__.__name__ may give, or the exception on the way
ShellNames == {"ZMQInteractiveShell", "TerminalInteractiveShell", "NoneType", "Shell"}
Shells == [kind : {"raise"}, exc : Exceptions, name : {None}]
          \cup [kind : {"value"}, exc : {None}, name : ShellNames]

\* lines 139-151: the inner try; an exception no clause handles leaves the function
ShellLookup(shell) ==
    IF shell.kind = "raise"
    THEN IF Catches("NameError", shell.exc) \/ Catches("ModuleNotFoundError", shell.exc)
         THEN "other"
         ELSE shell.exc
    ELSE IF shell.name = "ZMQInteractiveShell" THEN "notebook-qtconsole"
    ELSE IF shell.name = "TerminalInteractiveShell" THEN "ipython"
    ELSE "other"

\* identify_session: a label, or the class of the exception that leaves it
IdentifySession(probe, shell) ==
    IF probe.kind = "raise"
    THEN IF Catches("Exception", probe.exc) THEN ShellLookup(shell) ELSE probe.exc
    ELSE IF probe.w = Nothing THEN "remote-colab"
    ELSE IF Contains(probe.w[1], Google) THEN "colab"
    ELSE "remote-colab"

\* --------------------------------------------------- the project name
\* longest name drawn, before an optional ".git" of its own
MaxNameLen == 2
NameChars == {"a", "."}
DotGit == <<".", "g", "i", "t">>
Names == {n \o s : n \in Seqs(NameChars, MaxNameLen), s \in {<< >>, DotGit}}
UrlPrefixes == {<<"h", ":", "/", "/", "x", "/", "u">>, <<"g", "@", "x", ":", "u">>}

\* the group of re.match("^.*/([^/]*)$", url): the text after the last "/",
\* Nothing where there is no match (no "/", or a newline before the last "/")
UrlMatch(url) ==
    LET slashes == {i \in 1..Len(url) : url[i] = "/"} IN
    IF slashes = {} THEN Nothing
    ELSE LET last == CHOOSE i \in slashes : \A k \in slashes : k <= i IN
         IF \E k \in 1..last : url[k] = "\n" THEN Nothing
         ELSE Some(SubSeq(url, last + 1, Len(url)))

StripDotGitNever(n) == n
\* project_name[0:-4] if project_name.endswith(".git") else project_name
StripDotGit(n) == IF EndsWith(n, DotGit) THEN SubSeq(n, 1, Len(n) - 4) ELSE n

\* initialize, lines 304-308; Nothing stands for the AttributeError of None.groups()
InitializeProjectName(url) ==
    LET m == UrlMatch(url) IN IF m = Nothing THEN Nothing ELSE Some(StripDotGit(m[1]))

\* _get_project_name of the uploader: the group is stripped of blanks first
GetProjectName(url) ==
    LET m == UrlMatch(url) IN IF m = Nothing THEN Nothing ELSE Some(StripDotGit(Strip(m[1])))

\* the URL of a repository: .../name.git or .../name
RepoUrl(a) == a.prefix \o <<"/">> \o a.name \o (IF a.dotgit THEN DotGit ELSE << >>)

NameInputs == [prefix : UrlPrefixes, name : Names, dotgit : BOOLEAN]

\* both derivations applied to one URL
ProjectNameStep ==
    /\ fn = "project_name"
    /\ out = << >>
    /\ out' = <<[initialize |-> InitializeProjectName(RepoUrl(arg)),
                uploader |-> GetProjectName(RepoUrl(arg))]>>
    /\ UNCHANGED <<envVars, globalVars, threadVars, mainVars, jobVars, apiVars, procVars, fn, arg>>

\* identify_session applied to the outcomes drawn
IdentifySessionStep ==
    /\ fn = "identify_session"
    /\ out = << >>
    /\ out' = <<IdentifySession(arg.probe, arg.shell)>>
    /\ UNCHANGED <<envVars, globalVars, threadVars, mainVars, jobVars, apiVars, procVars, fn, arg>>

SessionInputs == [probe : Probes, shell : Shells]

\* ------------------------------------------- the uploader's job-name rewrite
\* most lines of a first cell drawn
MaxLines == 2
JobNameWord == <<"j", "o", "b", "_", "n", "a", "m", "e">>
\* the alternatives of the quote group of JOB_NAME_PATTERN, in order
Quotes == << <<DQ>>, <<SQ>>, <<DQ, DQ, DQ>>, <<SQ, SQ, SQ>> >>
\* \s
IsSpaceChar(c) == c \in {" ", "\n", "\t"}

RECURSIVE SkipSpace(_, _)
\* \s*, greedy: the index of the first character that is no white space
SkipSpace(s, i) == IF i <= Len(s) /\ IsSpaceChar(s[i]) THEN SkipSpace(s, i + 1) ELSE i

RECURSIVE LineEnd(_, _)
\* where .* stops: the index of the next newline, or Len(s) + 1
LineEnd(s, i) == IF i <= Len(s) /\ s[i] # "\n" THEN LineEnd(s, i + 1) ELSE i

\* ^ under re.MULTILINE
AtLineStart(s, i) == i = 1 \/ s[i - 1] = "\n"

\* the closing positions of quote q for a name that starts at index from
Closings(s, from, q) ==
    {c \in from..(LineEnd(s, from) - Len(q)) : StartsWithAt(s, c, q)}

\* JOB_NAME_PATTERN tried at index i: head, quote, the greedy name up to the
\* last closing quote of the line, and the tail up to the end of the line
MatchAt(s, i) ==
    LET j1 == SkipSpace(s, i)
        j2 == SkipSpace(s, j1 + Len(JobNameWord))
        j3 == SkipSpace(s, j2 + 1)
        headOk == AtLineStart(s, i) /\ StartsWithAt(s, j1, JobNameWord)
                    /\ j2 <= Len(s) /\ s[j2] = "="
        usable == {k \in 1..Len(Quotes) :
                      /\ StartsWithAt(s, j3, Quotes[k])
                      /\ Closings(s, j3 + Len(Quotes[k]), Quotes[k]) # {}}
    IN  IF ~headOk \/ usable = {}
        THEN [ok |-> FALSE, headEnd |-> i, quote |-> << >>, tailStart |-> i, end |-> i]
        ELSE LET k == CHOOSE x \in usable : \A y \in usable : x <= y
                 q == Quotes[k]
                 cs == Closings(s, j3 + Len(q), q)
                 c == CHOOSE x \in cs : \A y \in cs : y <= x
             IN  [ok |-> TRUE, headEnd |-> j3, quote |-> q, tailStart |-> c + Len(q),
                  end |-> LineEnd(s, j3 + Len(q))]

KeepsReplacingOnce(n) == n = 0
\* re.sub is called without count: it goes on after n replacements, whatever n
KeepsReplacing(n) == TRUE

RECURSIVE SubFrom(_, _, _, _)
\* re.sub from index i on, n replacements made: the template
\* \g<head>\g<quote> + job_name + \g<quote>\g<tail> replaces each match
SubFrom(s, i, new, n) ==
    IF i > Len(s) THEN << >>
    ELSE LET m == MatchAt(s, i) IN
         IF m.ok /\ KeepsReplacing(n)
         THEN SubSeq(s, i, m.headEnd - 1) \o m.quote \o new \o m.quote
                \o SubSeq(s, m.tailStart, m.end - 1) \o SubFrom(s, m.end, new, n + 1)
         ELSE <<s[i]>> \o SubFrom(s, i + 1, new, n)

\* lines 219-224
ReSub(s, new) == SubFrom(s, 1, new, 0)

\* a line of the cell: an assignment of job_name, or some other text
AssignLines == [kind : {"assign"}, indent : {<< >>, <<" ">>}, q : {DQ, SQ},
                old : {<<"o">>, << >>},
                tail : {<< >>, <<" ", "#", "c">>, <<" ", "+", " ", DQ, "x", DQ>>},
                text : {<< >>}]
OtherLines == [kind : {"other"}, indent : {<< >>}, q : {DQ}, old : {<< >>}, tail : {<< >>},
               text : {<<"x", " ", "=", " ", "1">>,
                       << >>,
                       <<"x">> \o JobNameWord \o <<" ", "=", " ", DQ, "o", DQ>>,
                       JobNameWord \o <<" ", "=", " ", DQ, "o">>}]
LineText(l) ==
    IF l.kind = "assign"
    THEN l.indent \o JobNameWord \o <<" ", "=", " ", l.q>> \o l.old \o <<l.q>> \o l.tail
    ELSE l.text

RECURSIVE JoinLines(_)
\* the cell's source: its lines with newlines between them
JoinLines(ts) == IF Len(ts) = 1 THEN ts[1] ELSE ts[1] \o <<"\n">> \o JoinLines(Tail(ts))
CellText(ls) == JoinLines([k \in 1..Len(ls) |-> LineText(ls[k])])

NewNames == {<<"n">>, <<"n", "2">>}
Cells == UNION {[1..k -> AssignLines \cup OtherLines] : k \in 1..MaxLines}
RewriteInputs == [lines : Cells, new : NewNames]

\* the nbupload branch, lines 211-228, with --job-name given
RewriteStep ==
    /\ fn = "rewrite"
    /\ out = << >>
    /\ out' = <<ReSub(CellText(arg.lines), arg.new)>>
    /\ UNCHANGED <<envVars, globalVars, threadVars, mainVars, jobVars, apiVars, procVars, fn, arg>>

\* ------------------------------------------------ the data pull/push actions
Hyphen == <<"-">>
PullWord == <<"p", "u", "l", "l">>
PushWord == <<"p", "u", "s", "h">>
DataWord == <<"d", "a", "t", "a">>
JobWord == <<"j", "o", "b">>
ProjectWord == <<"p", "r", "o", "j", "e", "c", "t">>
\* the four values of args.action of lines 151-156
ActionText(a) ==
    (IF a.dir = "pull" THEN PullWord ELSE PushWord) \o Hyphen \o DataWord \o Hyphen
       \o (IF a.scope = "job" THEN JobWord ELSE ProjectWord)
\* the output of `git config --get remote.origin.url`
GitUrl(g) == (IF g.slash THEN <<"h", "/">> ELSE << >>) \o g.name \o DotGit \o <<"\n">>

\* _get_git_project_name, lines 17-28: None, or what _get_project_name gives
GetGitProjectName(g) == IF g.rc # 0 THEN Nothing ELSE GetProjectName(GitUrl(g))

IsPullNever(action) == FALSE
\* line 175: "pull-" in args.action
IsPull(action) == Contains(action, PullWord \o Hyphen)
\* line 166: "data-job" in args.action
IsDataJob(action) == Contains(action, DataWord \o Hyphen \o JobWord)

\* colab_path and local_path of lines 162-173
ColabPath(project, action, job) ==
    <<"remote", ":colab_data/">> \o project \o <<"/">>
       \o (IF IsDataJob(action) THEN <<"data_job/">> \o job \o <<"/">> ELSE <<"data_project/">>)
LocalPath(action) == IF IsDataJob(action) THEN <<"data_job/">> ELSE <<"data_project/">>

DataInputs ==
    [act : [dir : {"pull", "push"}, scope : {"job", "project"}],
     project : {Nothing, Some(<< >>), Some(<<"p">>)},
     git : [rc : ToolCodes, slash : BOOLEAN, name : {<< >>, <<"a">>}],
     job : {Nothing, Some(<< >>), Some(<<"j">>)}]

\* the value of out after the arguments are dealt with or the program is over
DataOut(pc, status, from, to, ran) ==
    [pc |-> pc, status |-> status, from |-> from, to |-> to, invoked |-> ran,
     rc |-> Nothing]

\* lines 157-181: the project name, the job name, the two paths; sys.exit(1)
\* on a missing argument (an AttributeError of _get_project_name also ends
\* the program with status 1)
DataArgs ==
    /\ fn = "data"
    /\ out = << >>
    /\ LET action == ActionText(arg.act)
           given == arg.project # Nothing /\ arg.project[1] # << >>
           gitName == GetGitProjectName(arg.git)
           project == IF given THEN arg.project ELSE gitName
       IN  IF ~given /\ arg.git.rc = 0 /\ gitName = Nothing
           THEN out' = <<DataOut("exit", 1, << >>, << >>, FALSE)>>
           ELSE IF project = Nothing \/ Len(project[1]) = 0
           THEN out' = <<DataOut("exit", 1, << >>, << >>, FALSE)>>
           ELSE IF IsDataJob(action) /\ (arg.job = Nothing \/ arg.job[1] = << >>)
           THEN out' = <<DataOut("exit", 1, << >>, << >>, FALSE)>>
           ELSE LET job == IF arg.job = Nothing THEN << >> ELSE arg.job[1]
                    colab == ColabPath(project[1], action, job)
                    local == LocalPath(action)
                IN  out' = <<DataOut("copy", 0,
                                     IF IsPull(action) THEN colab ELSE local,
                                     IF IsPull(action) THEN local ELSE colab, FALSE)>>
    /\ UNCHANGED <<envVars, globalVars, threadVars, mainVars, jobVars, apiVars, procVars, fn, arg>>

\* lines 182-198: rclone copyto runs and exits with rc; the assert, sys.exit(0)
DataCopy(rc) ==
    /\ fn = "data"
    /\ out # << >>
    /\ out[1].pc = "copy"
    /\ out' = <<[out[1] EXCEPT !.pc = "exit", !.invoked = TRUE, !.rc = Some(rc),
                              !.status = IF rc = 0 THEN 0 ELSE 1]>>
    /\ UNCHANGED <<envVars, globalVars, threadVars, mainVars, jobVars, apiVars, procVars, fn, arg>>

\* line 182: rclone cannot be started, subprocess.run raises
DataCopyRaises ==
    /\ fn = "data"
    /\ out # << >>
    /\ out[1].pc = "copy"
    /\ out' = <<[out[1] EXCEPT !.pc = "exit", !.status = 1]>>
    /\ UNCHANGED <<envVars, globalVars, threadVars, mainVars, jobVars, apiVars, procVars, fn, arg>>

\* one function or one run of the program, for every input drawn
InitCli ==
    /\ InitSync({"colab"}, {{}}, {FALSE})
    /\ InitJobsIdle
    /\ \/ fn = "identify_session" /\ arg \in SessionInputs
       \/ fn = "project_name" /\ arg \in NameInputs
       \/ fn = "rewrite" /\ arg \in RewriteInputs
       \/ fn = "data" /\ arg \in DataInputs
    /\ out = << >>

NextCli ==
    \/ IdentifySessionStep
    \/ ProjectNameStep
    \/ RewriteStep
    \/ DataArgs
    \/ \E rc \in ToolCodes : DataCopy(rc)
    \/ DataCopyRaises

SpecCli == InitCli /\ [][NextCli]_vars

\* ================================================================ claims
\* the thread is inside the loop of f: it can go on to a mount or mirror step
InLoop(t) == tpc[t] \in {"top", "mount", "sync", "rsync", "ran", "event", "sleep"}

\* C1: in no reachable state are two loop threads both able to run a mount or
\* mirror step: a second launch stops the first loop before the second loop's
\* first iteration begins.
C1_OneLoopAtATime ==
    \A t1 \in Threads, t2 \in Threads : t1 # t2 => ~(InLoop(t1) /\ InLoop(t2))

\* a second loop is mirroring after the first was stopped by the launch
C1_Witness ==
    /\ nthreads >= 2
    /\ tpc[1] = "exited"
    /\ tpc[2] = "rsync"

\* C2 (as stated): when _sync_mount_google_drive has returned, so that
\* initialize stands before the data_project seeding, the first mirror run of
\* the new loop has ended with exit code 0 or 24.
C2_ReturnsAfterGoodPull ==
    mpc = "seed" => pullRc \in {Some(0), Some(24)}

\* C3: the first mirror run of every loop copies remote to local, every later
\* run of the same loop copies local to remote.
C3_PullThenPush ==
    [][\A t \in Threads :
          (tpc[t] = "sync" /\ tpc'[t] = "rsync") =>
             tdir'[t] = IF tdir[t] = None THEN "remote_to_local" ELSE "local_to_remote"]_vars

\* a loop is in a later mirror run, copying local to remote
C3_Witness ==
    \E t \in Threads : tpc[t] = "rsync" /\ tdir[t] = "local_to_remote" /\ ~tinit[t]

\* C4: a mirror run ending with a code other than 0 or 24 is reported and the
\* loop goes on: the thread does not end, it sleeps and, unless SYNC_STOP is
\* set, starts another iteration; code 24 (like 0) is not reported; the step
\* never touches the caller of initialize.
C4_ErrorsDoNotAbort ==
    [][\A t \in Threads :
          /\ tpc[t] = "ran" /\ tpc'[t] # "ran" =>
                /\ tpc'[t] = "event"
                /\ reported'[t] = (trc[t][1] \notin {0, 24})
                /\ UNCHANGED <<mpc, result>>
          /\ tpc[t] = "event" /\ tpc'[t] # "event" => tpc'[t] = "sleep"
          /\ tpc[t] = "sleep" /\ tpc'[t] # "sleep" =>
                tpc'[t] = IF SYNC_STOP THEN "stop1" ELSE "top"]_vars

\* a failed run was reported and the loop sleeps, with no stop requested
C4_Witness ==
    \E t \in Threads :
        tpc[t] = "sleep" /\ trc[t] = Some(23) /\ reported[t] /\ ~SYNC_STOP

\* C5: a hosted force=False call for a project for which an earlier force=False
\* call returned a pair returns the same pair and clones nothing, launches no
\* sync loop and installs nothing.
C5_SecondCallIsNoOp ==
    again =>
        /\ mpc = "idle"
        /\ result = prevPair[Proj]
        /\ did \cap {"clone", "launch", "seed", "pip"} = {}

\* the second call has returned, after a first call that did the whole setup
C5_Witness ==
    /\ again
    /\ mpc = "idle"
    /\ result = HostedPair("p1")
    /\ nthreads = 1

\* the steps of initialize that come after a step
LaterSteps(step) ==
    IF step = "clone" THEN {"gitlog", "launch", "seed", "pip"}
    ELSE IF step = "seed" THEN {"pip"}
    ELSE {}

\* C6: a failed clone, a failed "full" data_project seeding and a failed pip
\* install each abort the call: it raises, returns no pair, and no later step
\* of the initialization is executed.
C6_FatalFailures ==
    failedStep \in {"clone", "seed", "pip"} =>
        /\ mpc = "idle"
        /\ result = <<"raised">>
        /\ did \cap LaterSteps(failedStep) = {}

\* the seeding failed after the clone and the launch were done
C6_Witness ==
    /\ failedStep = "seed"
    /\ result = <<"raised">>
    /\ {"clone", "launch"} \subseteq did

\* the loop of run_sub_jobs is over
LoopDone == jpc = "final" \/ (jpc = "done" /\ jresult.kind \in {"main", "UnboundLocalError"})
InvokedSet == {invoked[k][1] : k \in 1..Len(invoked)}
InRange == {i \in Indices : jin.first <= i /\ i < jin.n}

\* C7: with no completion file and every child exiting 0, the orchestrator
\* starts exactly one child per index first_job_to_run..n_sub_jobs-1, in
\* ascending order, each with SUB_JOB_ID holding its index, and never two
\* children at once.
C7_EachIndexOnceInOrder ==
    /\ Cardinality(running) <= 1
    /\ \A k \in 1..Len(invoked) : ParseInt(invoked[k][2]) = invoked[k][1]
    /\ (LoopDone /\ jin.completion = None /\ failedAt = Nothing) =>
          /\ Len(invoked) = Cardinality(InRange)
          /\ \A k \in 1..Len(invoked) : invoked[k][1] = jin.first + k - 1

\* three sub-jobs were run, 0, 1, 2, and the call returned
C7_Witness ==
    /\ jresult.kind = "main"
    /\ jin.completion = None
    /\ failedAt = Nothing
    /\ invoked = << <<0, <<"0">> >>, <<1, <<"1">> >>, <<2, <<"2">> >> >>

\* C8: no child is started for an index whose folder held the completion file
\* when the loop reached it; every other index in range is started (as long as
\* no child fails): a skip does not end the loop.
C8_MarkerSkipsOnlyThatIndex ==
    \A i \in Indices :
        /\ (jin.completion # None /\ reach[i] = "present") => i \notin InvokedSet
        /\ (LoopDone /\ failedAt = Nothing /\ i \in InRange
              /\ ~(jin.completion # None /\ reach[i] = "present")) => i \in InvokedSet

\* index 1 was skipped for its completion file, 0 and 2 were run
C8_Witness ==
    /\ jresult.kind = "main"
    /\ jin.completion # None
    /\ reach[1] = "present"
    /\ InvokedSet = {0, 2}

\* what int() and the folder format give for the values drawn
ExpectedIndex(v) ==
    CASE v = <<"0">> -> 0
      [] v = <<"2">> -> 2
      [] v = <<"1", "0">> -> 10
      [] v = <<"0", "1">> -> 1
      [] v = <<"-", "1">> -> 0 - 1
      [] v = <<" ", "1">> -> 1
ExpectedFolder(v) ==
    CASE v = <<"0">> -> <<"data_job", "/", "sub_job", "_", "0", "0", "0">>
      [] v = <<"2">> -> <<"data_job", "/", "sub_job", "_", "0", "0", "2">>
      [] v = <<"1", "0">> -> <<"data_job", "/", "sub_job", "_", "0", "1", "0">>
      [] v = <<"0", "1">> -> <<"data_job", "/", "sub_job", "_", "0", "0", "1">>
      [] v = <<"-", "1">> -> <<"data_job", "/", "sub_job", "_", "-", "0", "1">>
      [] v = <<" ", "1">> -> <<"data_job", "/", "sub_job", "_", "0", "0", "1">>
NoEffects ==
    /\ invoked = << >>
    /\ running = {}
    /\ curFile = Nothing
    /\ folders = {}
    /\ markers = jin.markers

\* C9 (as stated): with SUB_JOB_ID set, whatever its value, the call ends by
\* returning (index, folder of the index) and has no effect.
C9_AnyValueReturns ==
    (jin.env # Nothing /\ jpc = "done") => (jresult.kind = "child" /\ NoEffects)

\* C9 (amended): with SUB_JOB_ID set the call has no effect, whatever the
\* value; where the value is an integer literal the call returns that integer
\* and its folder, and otherwise it raises ValueError.
C9_IntegerValueReturns ==
    jin.env # Nothing =>
        /\ NoEffects
        /\ jpc \in {"start", "done"}
        /\ jpc = "done" =>
              IF jin.env[1] \in {<<"a">>, << >>}
              THEN jresult.kind = "ValueError"
              ELSE /\ jresult.kind = "child"
                   /\ jresult.index = ExpectedIndex(jin.env[1])
                   /\ jresult.folder = ExpectedFolder(jin.env[1])

\* the call returned inside sub-job 10, all arguments asking for work
C9_Witness ==
    /\ jin.env = Some(<<"1", "0">>)
    /\ jin.n = MaxJobs
    /\ jin.first = 0
    /\ jresult.kind = "child"
    /\ jresult.index = 10

\* C10: after a child exits non-zero, no child is started for a later index.
C10_FailureStopsSequence ==
    failedAt # Nothing => \A k \in 1..Len(invoked) : invoked[k][1] <= failedAt[1]

\* the child for index 0 failed, two more sub-jobs were due, the call is over
C10_Witness ==
    /\ failedAt = Some(0)
    /\ jin.n = 3
    /\ jin.first = 0
    /\ jpc = "done"

\* C11 (as stated): when run_sub_jobs returns (n_sub_jobs, data_job) in the
\* main session, every index from first_job_to_run to n_sub_jobs-1 was run to
\* exit code 0 or skipped because its completion file was there.
C11_ReturnsAfterAllComplete ==
    jresult.kind = "main" =>
        /\ failedAt = Nothing
        /\ \A i \in InRange :
              \/ i \in InvokedSet
              \/ (jin.completion # None /\ reach[i] = "present")

\* C12 (as stated): when wait_for_sync returns True, a local-to-remote mirror
\* run that started after the call began has ended with exit code 0.
C12_TrueAfterFreshUpload ==
    result = <<"True">> => freshOk

\* C13 (as stated): a wait_for_sync call that begins when no loop thread is
\* alive returns False: it is never left waiting.
C13_FalseWhenNotRunning ==
    noneAlive => (mpc = "idle" /\ result = <<"False">>)

\* C14 (as stated): in a hosted session, once an initialize call of the process
\* has returned a pair, copy_to_persistent_project_storage copies into the
\* mounted drive and never only logs.
C14_HostedCopyNeverSkipped ==
    (runtime \in HostedSessions /\ everReturned /\ Len(result) = 3)
        => result = <<"copy", "drive", "copied">>

\* C15 (as stated): outside Colab initialize clones nothing, starts no thread,
\* mounts nothing, installs nothing and writes no start-up file or environment
\* variable, and the pair it returns lies under the parent of the working
\* directory.
C15_LocalPathsUnderParent ==
    runtime \notin HostedSessions =>
        /\ did = {}
        /\ mpc \in {"idle", "wfs1", "wfs2"}
        /\ nthreads = 0
        /\ SYNC_THREAD = Nothing
        /\ \A t \in Threads : tpc[t] = "unborn"
        /\ ~mounted
        /\ projDirs = {}
        /\ Len(result) = 2 =>
              result = << <<"cwd", "..", "data_project">>, <<"cwd", "..", "data_job">> >>

\* C15 (amended): the same, the pair lying under the parent of the working
\* directory when notebooks_folder is given and under the working directory
\* itself when notebooks_folder is None.
C15_LocalPathsByNotebooksFolder ==
    runtime \notin HostedSessions =>
        /\ did = {}
        /\ mpc \in {"idle", "wfs1", "wfs2"}
        /\ nthreads = 0
        /\ SYNC_THREAD = Nothing
        /\ \A t \in Threads : tpc[t] = "unborn"
        /\ ~mounted
        /\ projDirs = {}
        /\ Len(result) = 2 =>
              result = IF call.nb = None
                       THEN << <<"cwd", "data_project">>, <<"cwd", "data_job">> >>
                       ELSE << <<"cwd", "..", "data_project">>, <<"cwd", "..", "data_job">> >>

\* outside Colab a call with notebooks_folder=None has returned its pair
C15_Witness ==
    /\ runtime = "ipython"
    /\ ncalls = 2
    /\ call.nb = None
    /\ call.target.url
    /\ result = << <<"cwd", "data_project">>, <<"cwd", "data_job">> >>

\* C16 (as stated): identify_session ends by returning one of its five labels,
\* whatever the probe and the shell lookup give or raise.
C16_NeverRaises ==
    (fn = "identify_session" /\ out # << >>) => out[1] \in Labels

\* C17: for a URL .../name.git or .../name, initialize and _get_project_name
\* both derive name (a URL whose last segment ends in ".git" is of the first
\* form).
C17_NameFromUrl ==
    (fn = "project_name" /\ out # << >> /\ (arg.dotgit \/ ~EndsWith(arg.name, DotGit))) =>
        /\ out[1].initialize = Some(arg.name)
        /\ out[1].uploader = Some(arg.name)

\* the name of .../a.git.git is a.git, for both
C17_Witness ==
    /\ fn = "project_name"
    /\ arg.dotgit
    /\ arg.name = <<"a", ".", "g", "i", "t">>
    /\ out = <<[initialize |-> Some(<<"a", ".", "g", "i", "t">>),
               uploader |-> Some(<<"a", ".", "g", "i", "t">>)]>>

\* the lines of the cell that assign job_name
AssignAt(ls) == {k \in 1..Len(ls) : ls[k].kind = "assign"}
\* an assignment line as it reads up to the closing quote, with value v
UpToClosingQuote(l, v) ==
    l.indent \o <<"j", "o", "b", "_", "n", "a", "m", "e", " ", "=", " ", l.q>> \o v \o <<l.q>>

RECURSIVE SplitLines(_)
SplitLines(s) ==
    LET e == LineEnd(s, 1) IN
    IF e > Len(s) THEN <<s>>
    ELSE <<SubSeq(s, 1, e - 1)>> \o SplitLines(SubSeq(s, e + 1, Len(s)))

\* C18 (as stated): in a cell with one job_name assignment the rewrite puts the
\* new name between the quotes and changes no other character; a cell with no
\* assignment comes out as it went in.
C18_OnlyTheValueChanges ==
    (fn = "rewrite" /\ out # << >> /\ Cardinality(AssignAt(arg.lines)) <= 1) =>
        out[1] = JoinLines([k \in 1..Len(arg.lines) |->
                              IF arg.lines[k].kind = "assign"
                              THEN UpToClosingQuote(arg.lines[k], arg.new) \o arg.lines[k].tail
                              ELSE arg.lines[k].text])

\* C19 (as stated): in a cell with two or more job_name assignments only the
\* first is rewritten, the others come out as they went in.
C19_OnlyFirstMatch ==
    (fn = "rewrite" /\ out # << >> /\ Cardinality(AssignAt(arg.lines)) >= 2) =>
        LET ol == SplitLines(out[1])
            first == CHOOSE k \in AssignAt(arg.lines) : \A x \in AssignAt(arg.lines) : k <= x
        IN  /\ Len(ol) = Len(arg.lines)
            /\ \A k \in AssignAt(arg.lines) :
                  IF k = first
                  THEN StartsWithAt(ol[k], 1, UpToClosingQuote(arg.lines[k], arg.new))
                  ELSE ol[k] = LineText(arg.lines[k])

\* C19 (amended): every job_name assignment of the cell is rewritten to the
\* new name, not the first one only; the lines that are no assignment come out
\* as they went in.
C19_EveryMatch ==
    (fn = "rewrite" /\ out # << >>) =>
        LET ol == SplitLines(out[1])
        IN  /\ Len(ol) = Len(arg.lines)
            /\ \A k \in 1..Len(arg.lines) :
                  IF arg.lines[k].kind = "assign"
                  THEN StartsWithAt(ol[k], 1, UpToClosingQuote(arg.lines[k], arg.new))
                  ELSE ol[k] = arg.lines[k].text

\* a cell of two assignments, both rewritten
C19_Witness ==
    /\ fn = "rewrite"
    /\ Len(arg.lines) = 2
    /\ arg.lines[1].kind = "assign" /\ arg.lines[1].old = <<"o">>
    /\ arg.lines[2].kind = "assign" /\ arg.lines[2].old = <<"o">>
    /\ arg.lines[1].tail = << >> /\ arg.lines[2].tail = << >>
    /\ arg.lines[1].indent = << >> /\ arg.lines[2].indent = << >>
    /\ arg.lines[1].q = DQ /\ arg.lines[2].q = SQ
    /\ arg.new = <<"n">>
    /\ out = <<<<"j", "o", "b", "_", "n", "a", "m", "e", " ", "=", " ", DQ, "n", DQ, "\n",
                 "j", "o", "b", "_", "n", "a", "m", "e", " ", "=", " ", SQ, "n", SQ>>>>

\* C20: a data action without a project name (given, or found by git), or a
\* data-job action without a job name, ends with a non-zero status and rclone
\* is never run; otherwise a pull copies from the remote path to the local one
\* and a push the other way, and the status is 0 only if rclone exited 0.
C20_DataActions ==
    (fn = "data" /\ out # << >>) =>
        LET o == out[1]
            given == arg.project # Nothing /\ arg.project[1] # << >>
            fromGit == arg.git.rc = 0 /\ arg.git.slash /\ arg.git.name # << >>
            haveJob == arg.job # Nothing /\ arg.job[1] # << >>
            missing == (~given /\ ~fromGit) \/ (arg.act.scope = "job" /\ ~haveJob)
            project == IF given THEN arg.project[1] ELSE arg.git.name
            remote == <<"remote", ":colab_data/">> \o project \o <<"/">>
                         \o (IF arg.act.scope = "job"
                             THEN <<"data_job/">> \o arg.job[1] \o <<"/">>
                             ELSE <<"data_project/">>)
            here == IF arg.act.scope = "job" THEN <<"data_job/">> ELSE <<"data_project/">>
        IN  IF missing
            THEN o.pc = "exit" /\ o.status # 0 /\ ~o.invoked
            ELSE /\ o.from = IF arg.act.dir = "pull" THEN remote ELSE here
                 /\ o.to = IF arg.act.dir = "pull" THEN here ELSE remote
                 /\ (o.pc = "exit" /\ o.status = 0) => (o.invoked /\ o.rc = Some(0))
                 /\ (o.pc = "exit" /\ o.rc # Some(0)) => o.status # 0

\* pull-data-job with the project name found by git has copied and ended with 0
C20_Witness ==
    /\ fn = "data"
    /\ arg.act = [dir |-> "pull", scope |-> "job"]
    /\ arg.project = Nothing
    /\ arg.job = Some(<<"j">>)
    /\ out # << >>
    /\ out[1].pc = "exit"
    /\ out[1].status = 0
    /\ out[1].invoked
    /\ out[1].from = <<"remote", ":colab_data/", "a", "/", "data_job/", "j", "/">>
    /\ out[1].to = <<"data_job/">>

\* C21: while the child for index i runs, current_sub_job_is.txt holds i, the
\* folder sub_job_<i as three digits> exists and the child's SUB_JOB_ID is i.
C21_ReadyBeforeChildStarts ==
    \A i \in running :
        /\ curFile = Some(i)
        /\ (<<"data_job", "/", "sub_job", "_", "0", "0">> \o <<DigitChars[i + 1]>>) \in folders
        /\ invoked # << >>
        /\ invoked[Len(invoked)][1] = i
        /\ ParseInt(invoked[Len(invoked)][2]) = i

\* the child for index 2 runs, after the children for 0 and 1
C21_Witness ==
    /\ running = {2}
    /\ Len(invoked) = 3
    /\ curFile = Some(2)
    /\ <<"data_job", "/", "sub_job", "_", "0", "0", "2">> \in folders

\* C22 (as stated): for every n_sub_jobs >= 0 and every first_job_to_run the
\* orchestrator call that got past the notebook-name request ends by writing
\* the last index to current_sub_job_is.txt and returning (n_sub_jobs, data_job).
C22_AlwaysRecordsAndReturns ==
    (jpc = "done" /\ jresult.kind \notin {"child", "ValueError", "RequestError"}) =>
        /\ jresult.kind = "main"
        /\ jresult.index = jin.n
        /\ curFile # Nothing

\* the main thread is inside _sync_mount_google_drive
Launching ==
    mpc \in {"sm_check", "sm_stop", "sm_join", "sm_joining", "sm_create", "sm_start", "sm_wait"}

\* C23 (as stated): while _sync_mount_google_drive is not executing, SYNC_STOP
\* is false.
C23_StopFlagClearedAfterLaunch ==
    ~Launching => ~SYNC_STOP

\* C24 (as stated): the caller of _sync_mount_google_drive is never left
\* waiting for the startup lock with no thread alive that could release it.
C24_NeverStuckOnStartupLock ==
    ~(/\ mpc = "sm_wait"
      /\ lockHeld
      /\ ~Alive(nthreads))

\* C25: in a hosted session, whenever initialize has returned a path pair for
\* a call given git_url, an initialize call for that project has earlier run
\* through the clone, the launch of the loop, the seeding and the installation
\* to its last line.
C25_PairMeansSetUp ==
    (Hosted /\ mpc = "idle" /\ Len(result) = 2 /\ call.target.url) => Proj \in setupDone

\* an initialize call begins in a hosted session for a project whose
\* directory exists
CallOnExisting ==
    /\ mpc = "idle"
    /\ ncalls' = ncalls + 1
    /\ Hosted
    /\ call'.target.name \in projDirs

\* C26: in a sub-job child process on the hosted platform with the project
\* directory present, every initialize call, force or not, returns the pair
\* at once: it goes on to no clone and no launch.
C26_SubJobAlwaysSkips ==
    [][(CallOnExisting /\ subJobEnv) => (mpc' = "idle" /\ Len(result') = 2)]_vars

\* C27: an initialize call that takes the already-initialized path leaves the
\* mirror flags, the stop flag, the thread handle and the recorded
\* mounted-drive path as they were.
C27_SkipChangesNoGlobal ==
    [][(CallOnExisting /\ ~call'.force) =>
          UNCHANGED <<SYNC_RSYNC_FLAGS, SYNC_STOP, SYNC_THREAD,
                      CURRENT_MOUNTED_DATA_PROJECT_PATH>>]_vars

\* C28: a file that is in the local job-data directory and not in the remote
\* one is still in the local directory after every step.
C28_UnsavedFileKept ==
    [][(fileLocal = "present" /\ fileRemote = "absent") => fileLocal' = "present"]_vars
====
